---- MODULE Spec2Model ----
(***************************************************************************)
(* django-bcrypt (django_bcrypt/models.py): bcrypt password hashing        *)
(* patched into django.contrib.auth of Django 1.3.                          *)
(*                                                                         *)
(* Strings are sequences of one-character strings.  The module's two       *)
(* functions, check_password and set_password, and its module-level        *)
(* activation are translated line by line; the library calls they make     *)
(* (py-bcrypt's gensalt/hashpw, Django's constant_time_compare, smart_str,  *)
(* the original check_password/set_password of django.contrib.auth.models)  *)
(* are modelled by what those libraries compute.                            *)
(***************************************************************************)
EXTENDS Integers, Sequences, FiniteSets, TLC

\* Longest plaintext, in characters, the host submits.
MaxPwLen == 1
\* Length of an encoded bcrypt salt (22 characters in py-bcrypt, scaled).
SaltLen == 1

VARIABLES
    settings,               \* django.conf.settings: the attributes that are set
    optimize,               \* the interpreter runs with -O (assert statements stripped)
    loaded,                 \* django_bcrypt.models has been imported
    models_check_password,  \* what django.contrib.auth.models.check_password is bound to
    User_set_password,      \* what models.User.set_password is bound to
    django_check_password,  \* the module global of line 194
    password,               \* user.password
    origin,                 \* ghost: who produced user.password, from which plaintext
    last                    \* ghost: the last call, its arguments, outcome and calls made

vars == <<settings, optimize, loaded, models_check_password, User_set_password,
          django_check_password, password, origin, last>>

----------------------------------------------------------------------------
(* Strings *)

RECURSIVE TakeUntil(_, _)
\* the part of s before the first c (all of s when c does not occur)
TakeUntil(s, c) ==
    IF s = <<>> \/ Head(s) = c THEN <<>>
    ELSE <<Head(s)>> \o TakeUntil(Tail(s), c)

RECURSIVE Split(_, _)
\* Python's s.split(c): the list of the parts of s between occurrences of c
Split(s, c) ==
    LET first == TakeUntil(s, c) IN
    IF Len(first) = Len(s) THEN <<first>>
    ELSE <<first>> \o Split(SubSeq(s, Len(first) + 2, Len(s)), c)

\* Python's c in s
Contains(s, c) == \E i \in 1..Len(s) : s[i] = c

\* C's s[i] (0-based) on a NUL-terminated string
CharAt(s, i) == IF i + 1 <= Len(s) THEN s[i + 1] ELSE "NUL"

\* C's s + n
Advance(s, n) == SubSeq(s, n + 1, Len(s))

\* the character codes the comparisons of the C code depend on
Ord(c) ==
    CASE c = "NUL" -> 0
      [] c = "!" -> 33
      [] c = "$" -> 36
      [] c = "0" -> 48
      [] c = "1" -> 49
      [] c = "2" -> 50
      [] c = "3" -> 51
      [] c = "4" -> 52
      [] c = "5" -> 53
      [] c = "6" -> 54
      [] c = "7" -> 55
      [] c = "8" -> 56
      [] c = "9" -> 57
      [] OTHER -> 97

Digits == <<"0", "1", "2", "3", "4", "5", "6", "7", "8", "9">>
IsDigit(c) == \E i \in 1..10 : Digits[i] = c
DigitVal(c) == (CHOOSE i \in 1..10 : Digits[i] = c) - 1

\* C's atoi on the head of s: the leading digits, 0 when there are none
RECURSIVE AtoiAcc(_, _)
AtoiAcc(s, acc) ==
    IF s = <<>> \/ ~IsDigit(Head(s)) THEN acc
    ELSE AtoiAcc(Tail(s), 10 * acc + DigitVal(Head(s)))
Atoi(s) == AtoiAcc(s, 0)

\* C's "%2.2u": at least two digits, zero padded
Format2u(n) == <<Digits[(n \div 10) + 1], Digits[(n % 10) + 1]>>

----------------------------------------------------------------------------
(* Inputs *)

\* the characters of the plaintexts the host submits: one ASCII, one not
PwChars == {"a", "U+00E9"}

RECURSIVE SeqsUpTo(_, _)
SeqsUpTo(S, n) ==
    IF n = 0 THEN {<<>>}
    ELSE LET shorter == SeqsUpTo(S, n - 1) IN
         shorter \cup {Append(s, c) : s \in {t \in shorter : Len(t) = n - 1}, c \in S}

\* the plaintexts the host submits, the empty string among them
Plaintexts == SeqsUpTo(PwChars, MaxPwLen)

\* Python's None as a raw_password
None == <<"<None>">>

\* what os.urandom yields, as gensalt encodes it: two different salts
SaltChars == {".", "/"}
Salts == {[i \in 1..SaltLen |-> c] : c \in SaltChars}

\* values the host gives settings.BCRYPT_LOG_ROUNDS
RoundsChoices == {3, 10, 32}

\* django.contrib.auth.models.UNUSABLE_PASSWORD
UNUSABLE_PASSWORD == <<"!">>

----------------------------------------------------------------------------
(* Library calls *)

\* Python's getattr(obj, name, default); an attribute is <<>> when not set
getattr(obj, name, default) == IF obj[name] # <<>> THEN obj[name][1] ELSE default

Utf8(c) ==
    IF c = "U+00E9" THEN <<"xC3", "xA9">>
    ELSE IF c = "U+00E8" THEN <<"xC3", "xA8">>
    ELSE <<c>>

RECURSIVE smart_str(_)
\* django.utils.encoding.smart_str on a unicode string: its UTF-8 bytes
smart_str(s) == IF s = <<>> THEN <<>> ELSE Utf8(Head(s)) \o smart_str(Tail(s))

RECURSIVE CompareLoop(_, _, _, _)
\* the loop of constant_time_compare: result |= ord(x) ^ ord(y) over zip(val1, val2)
CompareLoop(val1, val2, result, steps) ==
    IF val1 = <<>> THEN [eq |-> ~result, steps |-> steps]
    ELSE CompareLoop(Tail(val1), Tail(val2),
                     result \/ (Head(val1) # Head(val2)), steps + 1)

\* django.utils.crypto.constant_time_compare (Django 1.3), with the number of
\* character comparisons it performs
constant_time_compare(val1, val2) ==
    IF Len(val1) # Len(val2) THEN [eq |-> FALSE, steps |-> 0]
    ELSE CompareLoop(val1, val2, FALSE, 0)

RECURSIVE EqLoop(_, _, _)
\* Python's == on two strings: stops at the first character that differs
EqLoop(val1, val2, steps) ==
    IF val1 = <<>> THEN [eq |-> TRUE, steps |-> steps]
    ELSE IF Head(val1) # Head(val2) THEN [eq |-> FALSE, steps |-> steps + 1]
    ELSE EqLoop(Tail(val1), Tail(val2), steps + 1)

StrEq(val1, val2) ==
    IF Len(val1) # Len(val2) THEN [eq |-> FALSE, steps |-> 0]
    ELSE EqLoop(val1, val2, 0)

\* the width of a bcrypt key in the model: every plaintext's bytes fit
KeyWidth == 2 * MaxPwLen

PadKey(key) == key \o [i \in 1..(KeyWidth - Len(key)) |-> "_"]

\* the bcrypt digest (31 characters in py-bcrypt): a fixed-width string that
\* depends on the key, the minor version, the cost and the salt, and on nothing else
BcryptDigest(key, minor, logr, csalt) ==
    PadKey(key) \o <<minor>> \o Format2u(logr) \o csalt

InvalidSalt == [ok |-> FALSE, val |-> <<>>]

\* bcrypt.hashpw(password, salt) of py-bcrypt (pybc_bcrypt): ok is FALSE where
\* it raises ValueError("Invalid salt")
hashpw(pw, salt) ==
    LET s1 == Advance(salt, 1) IN
    IF Ord(CharAt(s1, 0)) > Ord("2") THEN InvalidSalt
    ELSE IF CharAt(s1, 1) # "$" /\ CharAt(s1, 1) # "a" THEN InvalidSalt
    ELSE
        LET minor == IF CharAt(s1, 1) = "a" THEN "a" ELSE "NUL"
            s2 == IF minor = "a" THEN Advance(s1, 1) ELSE s1
            s3 == Advance(s2, 2)
            n == Atoi(s3)
            s4 == Advance(s3, 3)
        IN  IF CharAt(s3, 2) # "$" THEN InvalidSalt
            ELSE IF n > 31 \/ n < 4 THEN InvalidSalt
            ELSE IF Len(s4) < SaltLen THEN InvalidSalt
            ELSE [ok |-> TRUE,
                  val |-> <<"$", "2">>
                          \o (IF minor = "a" THEN <<"a">> ELSE <<>>)
                          \o <<"$">> \o Format2u(n) \o <<"$">>
                          \o SubSeq(s4, 1, SaltLen)
                          \o BcryptDigest(pw, minor, n, SubSeq(s4, 1, SaltLen))]

\* bcrypt.gensalt(log_rounds) of py-bcrypt:
\* encode_salt(os.urandom(16), min(max(log_rounds, 4), 31))
gensalt(log_rounds, rnd) ==
    LET r == IF log_rounds < 4 THEN 4 ELSE IF log_rounds > 31 THEN 31 ELSE log_rounds
    IN  <<"$", "2", "a", "$">> \o Format2u(r) \o <<"$">> \o rnd

----------------------------------------------------------------------------
(* The host: django.contrib.auth.models of Django 1.3 *)

ALGO_SHA1 == <<"s", "h", "a", "1">>
ALGO_MD5 == <<"m", "d", "5">>

\* what a call did: its result (a return value or the exception raised), the
\* number of bcrypt.hashpw calls, the arguments handed to the legacy verifier,
\* the character comparisons made, and the arguments bcrypt.gensalt received
Outcome(result, nhashpw, legacy, steps, rounds) ==
    [result |-> result, hashpw |-> nhashpw, legacy |-> legacy,
     steps |-> steps, gensalt |-> rounds]

Raise(exc) == Outcome(exc, 0, <<>>, 0, <<>>)

Bool(b) == IF b THEN "True" ELSE "False"

\* get_hexdigest(algorithm, salt, raw_password): the hex digest of
\* salt + raw_password under md5 or sha1; <<>> where it raises ValueError
get_hexdigest(algorithm, salt, raw_password) ==
    IF algorithm = ALGO_MD5 THEN <<"#md5">> \o salt \o smart_str(raw_password)
    ELSE IF algorithm = ALGO_SHA1 THEN <<"#sha1">> \o salt \o smart_str(raw_password)
    ELSE <<>>

\* the original django.contrib.auth.models.check_password:
\*   algo, salt, hsh = enc_password.split('$')
\*   return constant_time_compare(hsh, get_hexdigest(algo, salt, raw_password))
original_check_password(raw_password, enc_password) ==
    LET parts == Split(enc_password, "$") IN
    IF Len(parts) # 3 THEN Raise("ValueError")
    ELSE IF get_hexdigest(parts[1], parts[2], raw_password) = <<>> THEN Raise("ValueError")
    ELSE LET c == constant_time_compare(
                      parts[3], get_hexdigest(parts[1], parts[2], raw_password))
         IN  Outcome(Bool(c.eq), 0, <<>>, c.steps, <<>>)

\* the original models.User.set_password with a usable raw_password:
\*   self.password = '%s$%s$%s' % (algo, salt, get_hexdigest(algo, salt, raw_password))
original_set_password(raw_password, rnd) ==
    ALGO_SHA1 \o <<"$">> \o rnd \o <<"$">> \o get_hexdigest(ALGO_SHA1, rnd, raw_password)

----------------------------------------------------------------------------
(* django_bcrypt/models.py *)

\* the tuple ('2a', '2', 'bcrypt') of the assertion
AcceptedAlgos == {<<"2", "a">>, <<"2">>, <<"b", "c", "r", "y", "p", "t">>}

\* the call django_check_password(raw_password, enc_password) of line 182:
\* the module global is looked up when the call is made
call_django_check_password(raw_password, enc_password) ==
    IF django_check_password = "undefined" THEN Raise("NameError")
    ELSE IF django_check_password = "django_bcrypt.check_password"
    THEN Raise("RuntimeError")
    ELSE LET r == original_check_password(raw_password, enc_password) IN
         [r EXCEPT !.legacy = <<<<raw_password, enc_password>>>>]

\* check_password as it would be had it compared with ==
check_password_plain_eq(raw_password, enc_password) ==
    IF Len(enc_password) = 0 THEN Raise("IndexError")
    ELSE IF enc_password[1] = "$" THEN
        LET algo == TakeUntil(Tail(enc_password), "$")
            h == hashpw(smart_str(raw_password), enc_password)
            c == StrEq(enc_password, h.val)
        IN  IF ~optimize /\ algo \notin AcceptedAlgos THEN Raise("AssertionError")
            ELSE IF ~h.ok THEN Outcome("ValueError", 1, <<>>, 0, <<>>)
            ELSE Outcome(Bool(c.eq), 1, <<>>, c.steps, <<>>)
    ELSE call_django_check_password(raw_password, enc_password)

\* check_password as it would be had it re-hashed under the configured
\* BCRYPT_LOG_ROUNDS, keeping only the salt of the stored value
check_password_configured_rounds(raw_password, enc_password) ==
    IF Len(enc_password) = 0 THEN Raise("IndexError")
    ELSE IF enc_password[1] = "$" THEN
        LET algo == TakeUntil(Tail(enc_password), "$")
            parts == Split(enc_password, "$")
            salt == IF Len(parts) >= 4 /\ Len(parts[4]) >= SaltLen
                    THEN SubSeq(parts[4], 1, SaltLen) ELSE <<>>
            h == hashpw(smart_str(raw_password),
                        gensalt(getattr(settings, "BCRYPT_LOG_ROUNDS", 12), salt))
            c == constant_time_compare(enc_password, h.val)
        IN  IF ~optimize /\ algo \notin AcceptedAlgos THEN Raise("AssertionError")
            ELSE IF ~h.ok THEN Outcome("ValueError", 1, <<>>, 0, <<>>)
            ELSE Outcome(Bool(c.eq), 1, <<>>, c.steps, <<>>)
    ELSE call_django_check_password(raw_password, enc_password)

\* def check_password(raw_password, enc_password)
check_password(raw_password, enc_password) ==
    IF Len(enc_password) = 0 THEN Raise("IndexError")
    ELSE IF enc_password[1] = "$" THEN
        LET algo == TakeUntil(Tail(enc_password), "$")
            h == hashpw(smart_str(raw_password), enc_password)
            c == constant_time_compare(enc_password, h.val)
        IN  IF ~optimize /\ algo \notin AcceptedAlgos THEN Raise("AssertionError")
            ELSE IF ~h.ok THEN Outcome("ValueError", 1, <<>>, 0, <<>>)
            ELSE Outcome(Bool(c.eq), 1, <<>>, c.steps, <<>>)
    ELSE call_django_check_password(raw_password, enc_password)

\* set_password as it would be without smart_str: the unicode string is hashed
set_password_without_smart_str(raw_password, rnd) ==
    IF raw_password = None
    THEN [password |-> UNUSABLE_PASSWORD, out |-> Outcome("None", 0, <<>>, 0, <<>>)]
    ELSE LET log_rounds == getattr(settings, "BCRYPT_LOG_ROUNDS", 12) IN
         [password |-> hashpw(raw_password, gensalt(log_rounds, rnd)).val,
          out |-> Outcome("None", 1, <<>>, 0, <<log_rounds>>)]

\* set_password as it would be without the test for None
set_password_without_none_test(raw_password, rnd) ==
    LET log_rounds == getattr(settings, "BCRYPT_LOG_ROUNDS", 12) IN
    [password |-> hashpw(smart_str(raw_password), gensalt(log_rounds, rnd)).val,
     out |-> Outcome("None", 1, <<>>, 0, <<log_rounds>>)]

\* set_password as it would be had it not read settings.BCRYPT_LOG_ROUNDS
set_password_fixed_rounds(raw_password, rnd) ==
    IF raw_password = None
    THEN [password |-> UNUSABLE_PASSWORD, out |-> Outcome("None", 0, <<>>, 0, <<>>)]
    ELSE [password |-> hashpw(smart_str(raw_password), gensalt(12, rnd)).val,
          out |-> Outcome("None", 1, <<>>, 0, <<12>>)]

\* def set_password(self, raw_password): the new self.password and what was called
set_password(raw_password, rnd) ==
    IF raw_password = None
    THEN [password |-> UNUSABLE_PASSWORD, out |-> Outcome("None", 0, <<>>, 0, <<>>)]
    ELSE LET log_rounds == getattr(settings, "BCRYPT_LOG_ROUNDS", 12) IN
         [password |-> hashpw(smart_str(raw_password), gensalt(log_rounds, rnd)).val,
          out |-> Outcome("None", 1, <<>>, 0, <<log_rounds>>)]

----------------------------------------------------------------------------
(* The calls the host makes *)

BCRYPT_CHECK == "django_bcrypt.check_password"
BCRYPT_SET == "django_bcrypt.set_password"
DJANGO_CHECK == "django.check_password"
DJANGO_SET == "django.set_password"

\* models.check_password(raw_password, enc_password), as currently bound
models_check_password_call(raw_password, enc_password) ==
    IF models_check_password = BCRYPT_CHECK
    THEN check_password(raw_password, enc_password)
    ELSE original_check_password(raw_password, enc_password)

\* user.set_password(raw_password), as currently bound
User_set_password_call(raw_password, rnd) ==
    IF User_set_password = BCRYPT_SET THEN set_password(raw_password, rnd)
    ELSE IF raw_password = None
    THEN [password |-> UNUSABLE_PASSWORD, out |-> Outcome("None", 0, <<>>, 0, <<>>)]
    ELSE [password |-> original_set_password(raw_password, rnd),
          out |-> Outcome("None", 0, <<>>, 0, <<>>)]

\* user.check_password(raw_password) of Django 1.3: a password without '$' is
\* an old md5 hex digest, compared directly and re-hashed on a match;
\* anything else goes to models.check_password
User_check_password_rehashes(raw_password) ==
    /\ ~Contains(password, "$")
    /\ password = get_hexdigest(ALGO_MD5, <<>>, raw_password)

User_check_password_call(raw_password, rnd) ==
    IF User_check_password_rehashes(raw_password)
    THEN LET s == User_set_password_call(raw_password, rnd) IN
         [password |-> s.password, out |-> [s.out EXCEPT !.result = "True"]]
    ELSE IF ~Contains(password, "$")
    THEN [password |-> password, out |-> Outcome("False", 0, <<>>, 0, <<>>)]
    ELSE [password |-> password,
          out |-> models_check_password_call(raw_password, password)]

\* rows of auth_user written before this process started, with the plaintext
\* each was made from
InitialRows ==
    { [password |-> original_set_password(<<"a">>, <<"0">>), raw |-> <<"a">>, by |-> DJANGO_SET],
      [password |-> get_hexdigest(ALGO_MD5, <<>>, <<"a">>), raw |-> <<"a">>, by |-> "md5"],
      [password |-> UNUSABLE_PASSWORD, raw |-> None, by |-> DJANGO_SET] }
    \cup { [password |-> hashpw(smart_str(<<"U+00E9">>), <<"$", "2", "a", "$", "0", "6", "$">> \o s).val,
            raw |-> <<"U+00E9">>, by |-> BCRYPT_SET] : s \in Salts }
    \cup { [password |-> hashpw(smart_str(<<"a">>), <<"$", "2", "$", "0", "5", "$">> \o s).val,
            raw |-> <<"a">>, by |-> BCRYPT_SET] : s \in Salts }

NoCall == [op |-> "none", raw |-> <<>>, enc |-> <<>>, installed |-> FALSE,
           out |-> Outcome("None", 0, <<>>, 0, <<>>)]

SettingValues(name) ==
    IF name = "USE_BCRYPT" THEN {<<>>, <<TRUE>>, <<FALSE>>}
    ELSE {<<>>} \cup {<<r>> : r \in RoundsChoices}

Init ==
    /\ settings \in [USE_BCRYPT : SettingValues("USE_BCRYPT"),
                     BCRYPT_LOG_ROUNDS : SettingValues("BCRYPT_LOG_ROUNDS")]
    /\ optimize \in BOOLEAN
    /\ loaded = [done |-> FALSE, USE_BCRYPT |-> <<>>]
    /\ models_check_password = DJANGO_CHECK
    /\ User_set_password = DJANGO_SET
    /\ django_check_password = "undefined"
    /\ \E row \in InitialRows :
        /\ password = row.password
        /\ origin = [by |-> row.by, raw |-> row.raw, rounds |-> <<>>]
    /\ last = NoCall

\* the host assigns or deletes an attribute of django.conf.settings
ChangeSetting ==
    \E name \in {"USE_BCRYPT", "BCRYPT_LOG_ROUNDS"} :
      \E v \in SettingValues(name) :
        /\ settings[name] # v
        /\ settings' = [settings EXCEPT ![name] = v]
        /\ UNCHANGED <<optimize, loaded, models_check_password, User_set_password,
                       django_check_password, password, origin, last>>

\* the import as it would be with lines 194 and 195 swapped: the reference
\* is captured after models.check_password was replaced
Load_captures_after_replacing ==
    /\ ~loaded.done
    /\ loaded' = [done |-> TRUE, USE_BCRYPT |-> settings.USE_BCRYPT]
    /\ IF getattr(settings, "USE_BCRYPT", TRUE)
       THEN /\ models_check_password' = BCRYPT_CHECK
            /\ django_check_password' = BCRYPT_CHECK
            /\ User_set_password' = BCRYPT_SET
       ELSE UNCHANGED <<django_check_password, models_check_password, User_set_password>>
    /\ UNCHANGED <<settings, optimize, password, origin, last>>

\* the import as it would be without the test of settings.USE_BCRYPT
Load_without_USE_BCRYPT_test ==
    /\ ~loaded.done
    /\ loaded' = [done |-> TRUE, USE_BCRYPT |-> settings.USE_BCRYPT]
    /\ django_check_password' = models_check_password
    /\ models_check_password' = BCRYPT_CHECK
    /\ User_set_password' = BCRYPT_SET
    /\ UNCHANGED <<settings, optimize, password, origin, last>>

\* import django_bcrypt.models: lines 193-196 run once
Load ==
    /\ ~loaded.done
    /\ loaded' = [done |-> TRUE, USE_BCRYPT |-> settings.USE_BCRYPT]
    /\ IF getattr(settings, "USE_BCRYPT", TRUE)
       THEN /\ django_check_password' = models_check_password
            /\ models_check_password' = BCRYPT_CHECK
            /\ User_set_password' = BCRYPT_SET
       ELSE UNCHANGED <<django_check_password, models_check_password, User_set_password>>
    /\ UNCHANGED <<settings, optimize, password, origin, last>>

\* the host calls user.set_password(raw_password)
UserSetPassword ==
    \E raw \in Plaintexts \cup {None}, rnd \in Salts :
        LET s == User_set_password_call(raw, rnd) IN
        /\ password' = s.password
        /\ origin' = [by |-> User_set_password, raw |-> raw, rounds |-> s.out.gensalt]
        /\ last' = [op |-> "set_password", raw |-> raw, enc |-> <<>>,
                    installed |-> (User_set_password = BCRYPT_SET), out |-> s.out]
        /\ UNCHANGED <<settings, optimize, loaded, models_check_password,
                       User_set_password, django_check_password>>

\* the host calls user.check_password(raw_password), as django's login does;
\* a salt is drawn only when the call re-hashes
UserCheckPassword ==
    \E raw \in Plaintexts :
      \E rnd \in IF User_check_password_rehashes(raw) THEN Salts ELSE {<<>>} :
        LET c == User_check_password_call(raw, rnd) IN
        /\ password' = c.password
        /\ origin' = IF User_check_password_rehashes(raw)
                     THEN [by |-> User_set_password, raw |-> raw, rounds |-> c.out.gensalt]
                     ELSE origin
        /\ last' = [op |-> "User.check_password", raw |-> raw, enc |-> password,
                    installed |-> (models_check_password = BCRYPT_CHECK), out |-> c.out]
        /\ UNCHANGED <<settings, optimize, loaded, models_check_password,
                       User_set_password, django_check_password>>

\* stored values handed to models.check_password directly: empty, legacy
\* (with and without '$'), bcrypt hashes of both minor versions, a truncated
\* hash, and values whose tag is not a bcrypt one
StoredInputs ==
    LET salt == [i \in 1..SaltLen |-> "."]
        h2a == hashpw(smart_str(<<"U+00E8">>), gensalt(4, salt)).val
        h2 == hashpw(smart_str(<<"a">>), <<"$", "2", "$", "3", "1", "$">> \o salt).val
    IN  { <<>>,
          UNUSABLE_PASSWORD,
          get_hexdigest(ALGO_MD5, <<>>, <<"a">>),
          original_set_password(<<"a">>, <<"0">>),
          h2a,
          h2,
          SubSeq(h2a, 1, 6),
          <<"$", "1">> \o Advance(h2, 2),
          <<"$", "b", "c", "r", "y", "p", "t">> \o Advance(h2, 2),
          <<"$">> \o original_set_password(<<"a">>, <<"0">>) }

\* the host calls models.check_password(raw_password, enc_password)
CallCheckPassword ==
    \E raw \in Plaintexts, enc \in StoredInputs \cup {password} :
        /\ last' = [op |-> "check_password", raw |-> raw, enc |-> enc,
                    installed |-> (models_check_password = BCRYPT_CHECK),
                    out |-> models_check_password_call(raw, enc)]
        /\ UNCHANGED <<settings, optimize, loaded, models_check_password,
                       User_set_password, django_check_password, password, origin>>

\* the life of an account: settings change, the module is imported, passwords
\* are set and checked at login
Next ==
    \/ ChangeSetting
    \/ Load
    \/ UserSetPassword
    \/ UserCheckPassword

\* the verifier on its own: the module is imported and models.check_password
\* is called with stored values of every shape
NextCalls ==
    \/ Load
    \/ CallCheckPassword

Spec == Init /\ [][Next]_vars

SpecCalls == Init /\ [][NextCalls]_vars

----------------------------------------------------------------------------
(* Properties *)

Installed == models_check_password = BCRYPT_CHECK /\ User_set_password = BCRYPT_SET

\* the cost field of a bcrypt hash or salt: the text between its 2nd and 3rd '$'
CostField(enc) == Split(enc, "$")[3]

\* the tag of a stored value that begins with '$'
Tag(enc) == TakeUntil(Tail(enc), "$")

\* user.password is a hash that this package's set_password made from a plaintext
BcryptMade == origin.by = BCRYPT_SET /\ origin.raw # None

\* the last call was models.check_password, bound to this package's function
DirectCheck == last.op = "check_password" /\ last.installed

\* C1: a hash that set_password(P) stored verifies against P, for every
\* plaintext (the empty one too) and every configured work factor: the
\* function returns True on it in every state, and every login made with P
\* against it has returned True.
C1_RoundTrip ==
    BcryptMade =>
        /\ check_password(origin.raw, password).result = "True"
        /\ (last.op = "User.check_password" /\ last.installed /\ last.enc = password
            /\ last.raw = origin.raw)
               => last.out.result = "True"

\* the empty plaintext was hashed by set_password in this process, under an
\* explicitly configured work factor, and a login with it has succeeded
C1_Witness ==
    /\ BcryptMade /\ origin.raw = <<>> /\ origin.rounds = <<10>>
    /\ last.op = "User.check_password" /\ last.installed /\ last.raw = <<>>
    /\ last.out.result = "True" /\ last.out.hashpw = 1

\* C2: whatever BCRYPT_LOG_ROUNDS is now, a hash set_password made earlier
\* verifies against its plaintext, and the hash check_password recomputes
\* carries the work factor embedded in the stored string, not the configured one.
C2_RoundsChangeKeepsHashes ==
    BcryptMade =>
        /\ check_password(origin.raw, password).result = "True"
        /\ CostField(hashpw(smart_str(origin.raw), password).val) = CostField(password)
        /\ (last.op = "User.check_password" /\ last.installed /\ last.enc = password
            /\ last.raw = origin.raw)
               => (last.out.result = "True" /\ last.out.gensalt = <<>>)

\* a hash made under BCRYPT_LOG_ROUNDS = 10 has verified at login after the
\* setting was changed to 32
C2_Witness ==
    /\ BcryptMade /\ origin.rounds = <<10>> /\ CostField(password) = <<"1", "0">>
    /\ settings.BCRYPT_LOG_ROUNDS = <<32>>
    /\ last.op = "User.check_password" /\ last.installed /\ last.raw = origin.raw
    /\ last.out.result = "True"

\* C3: a non-empty stored value that does not begin with '$' goes, with the
\* plaintext, unchanged to the legacy verifier, which is django's original
\* check_password captured at import; its result is returned and bcrypt.hashpw
\* is not called.
C3_LegacyRouting ==
    /\ Installed => django_check_password = DJANGO_CHECK
    /\ (DirectCheck /\ last.enc # <<>> /\ last.enc[1] # "$") =>
        /\ last.out.legacy = <<<<last.raw, last.enc>>>>
        /\ last.out.result = original_check_password(last.raw, last.enc).result
        /\ last.out.hashpw = 0

\* a legacy sha1 row was checked through the installed function and the
\* legacy verifier accepted the plaintext
C3_Witness ==
    /\ DirectCheck /\ last.enc = original_set_password(<<"a">>, <<"0">>)
    /\ last.raw = <<"a">> /\ last.out.result = "True"
    /\ last.out.legacy = <<<<last.raw, last.enc>>>>

MalformedHashError == {"IndexError", "AssertionError"}

\* C5: check_password on an empty stored value, or on one that begins with
\* '$' and whose tag is not 2, 2a or bcrypt, fails with the validation
\* error, with or without assert statements compiled in.
C5_MalformedIsError ==
    (DirectCheck /\ (last.enc = <<>> \/ (last.enc[1] = "$" /\ Tag(last.enc) \notin AcceptedAlgos)))
        => last.out.result \in MalformedHashError

\* the stored value has the shape $tag$cost$salt...: a two-digit cost from
\* 04 to 31 and a whole salt follow its tag
EmbedsCostAndSalt(enc) ==
    LET parts == Split(enc, "$") IN
    /\ Len(parts) = 4
    /\ Len(parts[3]) = 2 /\ IsDigit(parts[3][1]) /\ IsDigit(parts[3][2])
    /\ Atoi(parts[3]) \in 4..31
    /\ Len(parts[4]) >= SaltLen

\* C6: on a stored value that begins with '$', whose tag is 2, 2a or bcrypt
\* and that embeds a cost and a salt, check_password returns True when the
\* recomputed hash equals the stored value and False otherwise, and does not
\* call the legacy verifier.
C6_SlowPathResult ==
    (DirectCheck /\ last.enc # <<>> /\ last.enc[1] = "$"
        /\ Tag(last.enc) \in AcceptedAlgos /\ EmbedsCostAndSalt(last.enc)) =>
        /\ last.out.result \in {"True", "False"}
        /\ last.out.result = "True" <=>
               hashpw(smart_str(last.raw), last.enc).val = last.enc
        /\ last.out.legacy = <<>>

\* C7: once the module is imported, the functions are installed exactly when
\* USE_BCRYPT was true or absent at import; with USE_BCRYPT false both
\* bindings are django's originals, and set_password and check_password give
\* what django's own functions give.
C7_DisableSwitch ==
    loaded.done =>
        IF loaded.USE_BCRYPT = <<FALSE>>
        THEN /\ models_check_password = DJANGO_CHECK
             /\ User_set_password = DJANGO_SET
             /\ django_check_password = "undefined"
             /\ \A raw \in Plaintexts :
                 /\ models_check_password_call(raw, password)
                        = original_check_password(raw, password)
                 /\ \A rnd \in Salts :
                        User_set_password_call(raw, rnd).password
                            = original_set_password(raw, rnd)
             /\ last.op # "none" => (~last.installed /\ last.out.hashpw = 0)
        ELSE Installed

\* imported with USE_BCRYPT = False, and a password was then set: it is
\* django's salted sha1, no bcrypt call made
C7_Witness ==
    /\ loaded.done /\ loaded.USE_BCRYPT = <<FALSE>>
    /\ last.op = "set_password" /\ last.raw = <<"a">> /\ last.out.hashpw = 0
    /\ \E rnd \in Salts : password = original_set_password(<<"a">>, rnd)

\* a call was made in this step
CallMade == last' # last \/ password' # password

\* C8 as claimed: both settings are read at each call, so after import every
\* call runs this package's function exactly when USE_BCRYPT is true or
\* absent at the time of the call.
C8_BothSettingsLive ==
    [][(loaded.done /\ CallMade) =>
           (last'.installed <=> getattr(settings, "USE_BCRYPT", TRUE))]_vars

\* C8, amended: BCRYPT_LOG_ROUNDS is read at each set_password call, the new
\* hash carries the cost bcrypt.gensalt gives the value configured at that
\* moment; USE_BCRYPT is read once, at import, and later changes to it do
\* not change which functions a call runs.
C8_RoundsLiveUseAtImport ==
    [][/\ (CallMade /\ last'.op = "set_password" /\ last'.installed /\ last'.raw # None) =>
              /\ last'.out.gensalt = <<getattr(settings, "BCRYPT_LOG_ROUNDS", 12)>>
              /\ CostField(password') =
                     CostField(gensalt(getattr(settings, "BCRYPT_LOG_ROUNDS", 12), <<>>))
       /\ (loaded.done /\ CallMade) =>
              (last'.installed <=> getattr(loaded, "USE_BCRYPT", TRUE))]_vars

\* imported with USE_BCRYPT absent, USE_BCRYPT then set to False and
\* BCRYPT_LOG_ROUNDS to 10: the next set_password still ran bcrypt, at cost 10
C8_Witness ==
    /\ loaded.done /\ loaded.USE_BCRYPT = <<>> /\ settings.USE_BCRYPT = <<FALSE>>
    /\ settings.BCRYPT_LOG_ROUNDS = <<10>>
    /\ last.op = "set_password" /\ last.installed /\ last.out.gensalt = <<10>>
    /\ CostField(password) = <<"1", "0">>

\* C9: with BCRYPT_LOG_ROUNDS outside 4..31, set_password of a plaintext
\* raises ImproperlyConfigured and hashes nothing.
C9_InvalidRoundsRejected ==
    (last.op = "set_password" /\ last.installed /\ last.raw # None
        /\ last.out.gensalt # <<>> /\ last.out.gensalt[1] \notin 4..31) =>
        (last.out.result = "ImproperlyConfigured" /\ last.out.hashpw = 0)

\* the first position (from 1) where two strings of one length differ, 0 if none
FirstDiff(a, b) ==
    IF \E i \in 1..Len(a) : a[i] # b[i]
    THEN CHOOSE i \in 1..Len(a) : a[i] # b[i] /\ \A j \in 1..(i - 1) : a[j] = b[j]
    ELSE 0

\* raw is a wrong credential for enc on the bcrypt path, its hash as long as enc
WrongOnSlowPath(raw, enc) ==
    /\ enc # <<>> /\ enc[1] = "$"
    /\ check_password(raw, enc).result = "False"
    /\ Len(hashpw(smart_str(raw), enc).val) = Len(enc)

\* C10: on the bcrypt path the comparison walks the whole stored string: a
\* wrong credential costs Len(stored) character comparisons wherever the
\* first difference is, so any other wrong credential for the same stored
\* value costs the same.
C10_ConstantTime ==
    (DirectCheck /\ WrongOnSlowPath(last.raw, last.enc)) =>
        /\ last.out.steps = Len(last.enc)
        /\ \A r2 \in Plaintexts :
               WrongOnSlowPath(r2, last.enc) =>
                   check_password(r2, last.enc).steps = last.out.steps

\* a wrong credential was checked whose hash first differs from the stored
\* one before the last character, and another wrong credential first differs
\* at another position
C10_Witness ==
    /\ DirectCheck /\ WrongOnSlowPath(last.raw, last.enc)
    /\ FirstDiff(last.enc, hashpw(smart_str(last.raw), last.enc).val) < Len(last.enc)
    /\ \E r2 \in Plaintexts :
        /\ WrongOnSlowPath(r2, last.enc)
        /\ FirstDiff(last.enc, hashpw(smart_str(r2), last.enc).val)
               # FirstDiff(last.enc, hashpw(smart_str(last.raw), last.enc).val)

====
